---------------------------- MODULE Spec2Model ----------------------------
(***************************************************************************)
(* ReportsService (src/src/reports/reports.service.ts) as a state machine, *)
(* and, further down, TicketsController.create                             *)
(* (src/src/tickets/tickets.controller.ts).                                *)
(*                                                                         *)
(* Text is a sequence of symbols.  A symbol is a one-character string      *)
(* (",", "\n", " ", a digit, "-") or a word that the inputs never split    *)
(* ("Cash", ".csv", "-06-15").  File names, file contents, parsed fields   *)
(* and report outputs are all such sequences, so that "byte-identical" is  *)
(* equality of sequences.                                                  *)
(*                                                                         *)
(* One action is one turn of the Node event loop: the synchronous code of  *)
(* a call or of an I/O completion together with every promise continuation *)
(* (microtask) it makes runnable.  The suspension points are the awaits on *)
(* fsp.readdir, fsp.readFile and fsp.writeFile.                            *)
(***************************************************************************)
EXTENDS Integers, Sequences, FiniteSets, TLC

\* Bounds of the model.
MaxRequests == 2
MaxRows == 3
MaxRuns == 2
MaxDirChanges == 1
MaxFaults == 1

Runs == 1..MaxRuns
Jobs == {"accounts", "yearly", "fs"}

-----------------------------------------------------------------------------
(* Strings and numbers of the runtime.                                     *)

Digits == <<"0", "1", "2", "3", "4", "5", "6", "7", "8", "9">>
DigitSet == {Digits[i] : i \in 1..10}
DigitVal(c) == (CHOOSE i \in 1..10 : Digits[i] = c) - 1
Whitespace == {" ", "\n"}

\* A value of the runtime that arithmetic meets: a number, held in
\* thousandths (v = 5000 is 5, v = 4 is 0.004), NaN, or a value that is no
\* number: a function that an object inherits, or the text that `+` makes
\* of such a value and a number.
NaN == [nan |-> TRUE, v |-> 0, text |-> FALSE]
Num(i) == [nan |-> FALSE, v |-> i, text |-> FALSE]
Whole(i) == Num(1000 * i)
Text == [nan |-> FALSE, v |-> 0, text |-> TRUE]
\* a + b: with a text, the concatenation
Add(a, b) ==
  IF a.text \/ b.text THEN Text
  ELSE IF a.nan \/ b.nan THEN NaN
  ELSE Num(a.v + b.v)
Sub(a, b) == IF a.nan \/ b.nan THEN NaN ELSE Num(a.v - b.v)
\* !x: 0 and NaN are falsy, a function and a text that is not empty are not.
Falsy(a) == ~a.text /\ (a.nan \/ a.v = 0)

\* String.prototype.trim
RECURSIVE TrimLeft(_)
TrimLeft(s) ==
  IF s # <<>> /\ Head(s) \in Whitespace THEN TrimLeft(Tail(s)) ELSE s
RECURSIVE TrimRight(_)
TrimRight(s) ==
  IF s # <<>> /\ s[Len(s)] \in Whitespace
    THEN TrimRight(SubSeq(s, 1, Len(s) - 1))
    ELSE s
Trim(s) == TrimRight(TrimLeft(s))

\* String.prototype.split(sep) for a one-symbol separator: never empty,
\* "".split(sep) is [""].
RECURSIVE SplitFrom(_, _, _)
SplitFrom(s, sep, cur) ==
  IF s = <<>> THEN <<cur>>
  ELSE IF Head(s) = sep THEN <<cur>> \o SplitFrom(Tail(s), sep, <<>>)
  ELSE SplitFrom(Tail(s), sep, Append(cur, Head(s)))
Split(s, sep) == SplitFrom(s, sep, <<>>)

\* Value of the longest prefix of digits of s (s starts with a digit).
RECURSIVE DigitsValue(_, _)
DigitsValue(s, acc) ==
  IF s # <<>> /\ Head(s) \in DigitSet
    THEN DigitsValue(Tail(s), 10 * acc + DigitVal(Head(s)))
    ELSE acc

\* The longest prefix of digits of s.
RECURSIVE DigitRun(_)
DigitRun(s) ==
  IF s # <<>> /\ Head(s) \in DigitSet
    THEN <<Head(s)>> \o DigitRun(Tail(s))
    ELSE <<>>
\* The thousandths that the digits after the point denote (the inputs have
\* at most three).
Thousandths(f) ==
  LET d(i) == IF i <= Len(f) THEN DigitVal(f[i]) ELSE 0
  IN  100 * d(1) + 10 * d(2) + d(3)
\* t begins like a decimal literal: digits, or a point and a digit.
StartsNumber(t) ==
  /\ t # <<>>
  /\ \/ Head(t) \in DigitSet
     \/ Len(t) >= 2 /\ Head(t) = "." /\ t[2] \in DigitSet
Unsigned(t) ==
  LET int == DigitRun(t)
      rest == SubSeq(t, Len(int) + 1, Len(t))
      frac == IF rest # <<>> /\ Head(rest) = "." THEN DigitRun(Tail(rest)) ELSE <<>>
  IN  1000 * DigitsValue(int, 0) + Thousandths(frac)

\* parseFloat on texts without exponent: leading white space is skipped, an
\* optional sign, then the longest decimal literal; NaN when there is none.
ParseFloat(s) ==
  LET t == TrimLeft(s) IN
  IF StartsNumber(t) THEN Num(Unsigned(t))
  ELSE IF t # <<>> /\ Head(t) = "-" /\ StartsNumber(Tail(t))
    THEN Num(0 - Unsigned(Tail(t)))
  ELSE IF t # <<>> /\ Head(t) = "+" /\ StartsNumber(Tail(t))
    THEN Num(Unsigned(Tail(t)))
  ELSE NaN

\* Decimal digits of a natural number.
RECURSIVE NatToText(_)
NatToText(n) ==
  IF n < 10 THEN <<Digits[n + 1]>>
  ELSE NatToText(n \div 10) \o <<Digits[(n % 10) + 1]>>
IntToText(i) == IF i < 0 THEN <<"-">> \o NatToText(0 - i) ELSE NatToText(i)

\* Number.prototype.toFixed(2): rounded to hundredths, a negative number
\* keeps its sign even when it rounds to zero.  (The inputs make no sum
\* that lies halfway between two hundredths.)
ToFixed2(a) ==
  IF a.nan THEN <<"NaN">>
  ELSE LET abs == IF a.v < 0 THEN 0 - a.v ELSE a.v
           hundredths == (abs + 5) \div 10
           c == hundredths % 100
       IN  (IF a.v < 0 THEN <<"-">> ELSE <<>>)
             \o NatToText(hundredths \div 100)
             \o <<".", Digits[(c \div 10) + 1], Digits[(c % 10) + 1]>>

\* Array.prototype.join
RECURSIVE Join(_, _)
Join(lines, sep) ==
  IF lines = <<>> THEN <<>>
  ELSE IF Len(lines) = 1 THEN lines[1]
  ELSE lines[1] \o <<sep>> \o Join(Tail(lines), sep)

-----------------------------------------------------------------------------
(* Plain objects used as maps: a sequence of <<key, value>> in insertion   *)
(* order.  Object.entries/keys/values list the canonical array-index keys  *)
(* first, in ascending numeric order, then the other keys in insertion     *)
(* order.                                                                  *)

ObjKeys(o) == {o[i][1] : i \in 1..Len(o)}
ObjHas(o, k) == k \in ObjKeys(o)
ObjGet(o, k) == o[CHOOSE i \in 1..Len(o) : o[i][1] = k][2]
ObjSet(o, k, v) ==
  IF ObjHas(o, k)
    THEN [i \in 1..Len(o) |-> IF o[i][1] = k THEN <<k, v>> ELSE o[i]]
    ELSE Append(o, <<k, v>>)

IsIndexKey(k) ==
  /\ k # <<>>
  /\ \A i \in 1..Len(k) : k[i] \in DigitSet
  /\ (Len(k) = 1 \/ k[1] # "0")

RECURSIVE SelectEntries(_, _)
SelectEntries(o, index) ==
  IF o = <<>> THEN <<>>
  ELSE IF IsIndexKey(Head(o)[1]) = index
    THEN <<Head(o)>> \o SelectEntries(Tail(o), index)
    ELSE SelectEntries(Tail(o), index)

\* Insertion sort of entries by the numeric value of their index keys.
RECURSIVE InsertIndexEntry(_, _)
InsertIndexEntry(sorted, e) ==
  IF sorted = <<>> THEN <<e>>
  ELSE IF DigitsValue(e[1], 0) < DigitsValue(Head(sorted)[1], 0)
    THEN <<e>> \o sorted
    ELSE <<Head(sorted)>> \o InsertIndexEntry(Tail(sorted), e)
RECURSIVE SortIndexEntries(_)
SortIndexEntries(o) ==
  IF o = <<>> THEN <<>>
  ELSE InsertIndexEntry(SortIndexEntries(Tail(o)), Head(o))

ObjEntries(o) ==
  SortIndexEntries(SelectEntries(o, TRUE)) \o SelectEntries(o, FALSE)

\* A name that an object literal inherits from Object.prototype (a method).
InheritedKeys == {<<"toString">>}
\* o[k] where a number is expected: the own property, else the inherited
\* one (a function), else undefined (falsy; it is never added to).
PropGet(o, k) ==
  IF ObjHas(o, k) THEN ObjGet(o, k)
  ELSE IF k \in InheritedKeys THEN Text
  ELSE NaN

-----------------------------------------------------------------------------
(* The record parser and the three report computations.                    *)

CsvExt == ".csv"
\* file.endsWith('.csv')
EndsWithCsv(file) == file # <<>> /\ file[Len(file)] = CsvExt
YearlyCsv == <<"yearly", CsvExt>>
FsCsv == <<"fs", CsvExt>>

\* content.trim().split('\n').map((line) => line.split(','))
RECURSIVE SplitLines(_)
SplitLines(lines) ==
  IF lines = <<>> THEN <<>>
  ELSE <<Split(Head(lines), ",")>> \o SplitLines(Tail(lines))
ParseContent(content) == SplitLines(Split(Trim(content), "\n"))

\* const [date, account, , debit, credit] = line
Undefined == <<"undefined">>
HasField(line, i) == Len(line) >= i
\* parseFloat(debit || '0') - parseFloat(credit || '0')
FieldOrZero(line, i) ==
  IF HasField(line, i) /\ line[i] # <<>> THEN line[i] ELSE <<"0">>
Amount(line) == Sub(ParseFloat(FieldOrZero(line, 4)), ParseFloat(FieldOrZero(line, 5)))

\* if (!acc[key]) acc[key] = 0;  acc[key] += amount
Accumulate(acc, key, amount) ==
  LET seeded == IF Falsy(PropGet(acc, key))
                  THEN ObjSet(acc, key, Num(0))
                  ELSE acc
  IN  ObjSet(seeded, key, Add(PropGet(seeded, key), amount))

\* The rows of the cached files, in Object.entries order, without the file
\* named skip (<<>> skips none).
RECURSIVE RowsOf(_, _)
RowsOf(entries, skip) ==
  IF entries = <<>> THEN <<>>
  ELSE (IF Head(entries)[1] = skip THEN <<>> ELSE Head(entries)[2])
         \o RowsOf(Tail(entries), skip)

\* `${key},${value.toFixed(2)}` for every entry.
RECURSIVE BalanceLines(_)
BalanceLines(entries) ==
  IF entries = <<>> THEN <<>>
  ELSE <<Head(entries)[1] \o <<",">> \o ToFixed2(Head(entries)[2])>>
         \o BalanceLines(Tail(entries))

\* accounts(): the content written to out/accounts.csv.
RECURSIVE AccountBalances(_, _)
AccountBalances(rows, acc) ==
  IF rows = <<>> THEN acc
  ELSE LET line == Head(rows)
           account == IF HasField(line, 2) THEN line[2] ELSE Undefined
       IN  AccountBalances(Tail(rows), Accumulate(acc, account, Amount(line)))
\* What a job gives in place of its content when it throws before its write.
TypeError == <<"TypeError">>
\* balance.toFixed(2) of a balance that is a text throws: a text has no
\* method toFixed.
AccountsOutput(cache) ==
  LET entries == ObjEntries(AccountBalances(RowsOf(ObjEntries(cache), <<>>), <<>>))
  IN  IF \E i \in 1..Len(entries) : entries[i][2].text
        THEN TypeError
        ELSE Join(<<<<"Account", ",", "Balance">>>> \o BalanceLines(entries), "\n")

\* new Date(date).getFullYear() for the date forms of the inputs: "YYYY" and
\* "YYYY-MM-DD" are UTC midnight, which west of Greenwich is still the day
\* before in local time; every other text is an Invalid Date (NaN).
MonthDays == {"-01-01", "-06-15"}
IsYear(s) == Len(s) = 4 /\ \A i \in 1..4 : s[i] \in DigitSet
FullYear(date, zone) ==
  IF IsYear(date)
    THEN Whole(DigitsValue(date, 0) - (IF zone = "west" THEN 1 ELSE 0))
  ELSE IF Len(date) = 5 /\ IsYear(SubSeq(date, 1, 4)) /\ date[5] \in MonthDays
    THEN Whole(DigitsValue(date, 0)
               - (IF zone = "west" /\ date[5] = "-01-01" THEN 1 ELSE 0))
  ELSE NaN
\* String(year), the property key
NumToKey(a) == IF a.nan THEN <<"NaN">> ELSE IntToText(a.v \div 1000)

\* Array.prototype.sort() without comparator: by UTF-16 code units.
SymRank(c) == IF c = "-" THEN 0 ELSE IF c \in DigitSet THEN 1 + DigitVal(c) ELSE 11
RECURSIVE TextLess(_, _)
TextLess(a, b) ==
  IF b = <<>> THEN FALSE
  ELSE IF a = <<>> THEN TRUE
  ELSE IF Head(a) = Head(b) THEN TextLess(Tail(a), Tail(b))
  ELSE SymRank(Head(a)) < SymRank(Head(b))
RECURSIVE InsertByKey(_, _)
InsertByKey(sorted, e) ==
  IF sorted = <<>> THEN <<e>>
  ELSE IF TextLess(e[1], Head(sorted)[1]) THEN <<e>> \o sorted
  ELSE <<Head(sorted)>> \o InsertByKey(Tail(sorted), e)
RECURSIVE SortByKey(_)
SortByKey(o) ==
  IF o = <<>> THEN <<>> ELSE InsertByKey(SortByKey(Tail(o)), Head(o))

\* yearly(): the content written to out/yearly.csv.
RECURSIVE CashByYear(_, _, _)
CashByYear(rows, zone, acc) ==
  IF rows = <<>> THEN acc
  ELSE LET line == Head(rows) IN
       IF HasField(line, 2) /\ line[2] = <<"Cash">>
         THEN CashByYear(Tail(rows), zone,
                Accumulate(acc, NumToKey(FullYear(line[1], zone)), Amount(line)))
         ELSE CashByYear(Tail(rows), zone, acc)
YearlyOutput(cache, zone) ==
  Join(<<<<"Financial Year", ",", "Cash Balance">>>>
         \o BalanceLines(SortByKey(CashByYear(RowsOf(ObjEntries(cache), YearlyCsv), zone, <<>>))),
       "\n")

\* fs(): the fixed taxonomy.
Revenues == <<"Sales Revenue">>
Expenses == <<"Cost of Goods Sold", "Salaries Expense", "Rent Expense",
              "Utilities Expense", "Interest Expense", "Tax Expense">>
Assets == <<"Cash", "Accounts Receivable", "Inventory", "Fixed Assets",
            "Prepaid Expenses">>
Liabilities == <<"Accounts Payable", "Loan Payable", "Sales Tax Payable",
                 "Accrued Liabilities", "Unearned Revenue", "Dividends Payable">>
Equity == <<"Common Stock", "Retained Earnings">>
Taxonomy == Revenues \o Expenses \o Assets \o Liabilities \o Equity

\* balances[account] = 0 for every account of the taxonomy
SeedBalances == [i \in 1..Len(Taxonomy) |-> <<<<Taxonomy[i]>>, Num(0)>>]

\* if (Object.hasOwn(balances, account)) balances[account] += amount
RECURSIVE FsBalances(_, _)
FsBalances(rows, bal) ==
  IF rows = <<>> THEN bal
  ELSE LET line == Head(rows) IN
       IF HasField(line, 2) /\ ObjHas(bal, line[2])
         THEN FsBalances(Tail(rows),
                ObjSet(bal, line[2], Add(ObjGet(bal, line[2]), Amount(line))))
         ELSE FsBalances(Tail(rows), bal)

\* const value = balances[account] || 0
FsValue(bal, name) ==
  LET b == ObjGet(bal, <<name>>) IN IF Falsy(b) THEN Num(0) ELSE b
FsLines(bal, group) ==
  [i \in 1..Len(group) |-> <<group[i], ",">> \o ToFixed2(FsValue(bal, group[i]))]
RECURSIVE FsTotal(_, _)
FsTotal(bal, group) ==
  IF group = <<>> THEN Num(0)
  ELSE Add(FsValue(bal, Head(group)), FsTotal(bal, Tail(group)))

FsOutputLines(bal) ==
  LET totalRevenue == FsTotal(bal, Revenues)
      totalExpenses == FsTotal(bal, Expenses)
      netIncome == Sub(totalRevenue, totalExpenses)
      totalAssets == FsTotal(bal, Assets)
      totalLiabilities == FsTotal(bal, Liabilities)
      totalEquity == Add(FsTotal(bal, Equity), netIncome)
  IN  <<<<"Basic Financial Statement">>, <<>>, <<"Income Statement">>>>
        \o FsLines(bal, Revenues)
        \o FsLines(bal, Expenses)
        \o <<<<"Net Income", ",">> \o ToFixed2(netIncome), <<>>, <<"Balance Sheet">>>>
        \o <<<<"Assets">>>>
        \o FsLines(bal, Assets)
        \o <<<<"Total Assets", ",">> \o ToFixed2(totalAssets), <<>>, <<"Liabilities">>>>
        \o FsLines(bal, Liabilities)
        \o <<<<"Total Liabilities", ",">> \o ToFixed2(totalLiabilities), <<>>, <<"Equity">>>>
        \o FsLines(bal, Equity)
        \o <<<<"Retained Earnings (Net Income)", ",">> \o ToFixed2(netIncome)>>
        \o <<<<"Total Equity", ",">> \o ToFixed2(totalEquity), <<>>>>
        \o <<<<"Assets = Liabilities + Equity, ">> \o ToFixed2(totalAssets)
               \o <<" = ">> \o ToFixed2(Add(totalLiabilities, totalEquity))>>
FsOutput(cache) ==
  Join(FsOutputLines(FsBalances(RowsOf(ObjEntries(cache), FsCsv), SeedBalances)), "\n")

-----------------------------------------------------------------------------
(* The inputs: the files that may lie in the source directory tmp/ and the *)
(* contents they may have.                                                 *)

ACsv == <<"a", CsvExt>>
BCsv == <<"b", CsvExt>>
NotesTxt == <<"notes", ".txt">>
FileNames == {ACsv, BCsv, NotesTxt}

\* "2023-06-15,Cash,,5,0\n"
TextCash ==
  <<"2", "0", "2", "3", "-06-15", ",", "Cash", ",", ",", "5", ",", "0", "\n">>
\* "2024-01-01,Sales Revenue,x,0,5\n2024-01-01,Cash,,7,2"
TextSales ==
  <<"2", "0", "2", "4", "-01-01", ",", "Sales Revenue", ",", "x", ",", "0", ",", "5", "\n",
    "2", "0", "2", "4", "-01-01", ",", "Cash", ",", ",", "7", ",", "2">>
TextEmpty == <<>>
TextNote == <<"x">>

\* The contents a file may be given, and the one it has at the start.
ContentsOf(file) ==
  IF file = ACsv THEN {TextCash, TextEmpty}
  ELSE IF file = BCsv THEN {TextSales}
  ELSE {TextNote}
FirstContent(file) ==
  IF file = ACsv THEN TextCash ELSE IF file = BCsv THEN TextSales ELSE TextNote

\* The directories the service may find when it starts: any set of the
\* eligible files, and a file that is not eligible among them.
InitDirs ==
  {[f \in S \cup {NotesTxt} |-> FirstContent(f)] : S \in SUBSET (FileNames \ {NotesTxt})}
Zones == {"utc", "west"}

\* The content of an output file that does not exist.
NoFile == <<"(no file)">>

-----------------------------------------------------------------------------
VARIABLES
  tmp,          \* the source directory: file name -> content
  tz,           \* the time zone of the process
  out,          \* the output directory: job -> content of out/<job>.csv
  states,       \* ReportsService.states
  parsedFiles,  \* ReportsService.parsedFiles
  pc,           \* per invocation of generateAllReports: where it is
  pending,      \* per invocation: the files whose readFile is in flight
  jobpc,        \* per invocation and job: where the job is
  toWrite,      \* per invocation and job: the content handed to writeFile
  listed,       \* history: the eligible files of the invocation's listing
  stored,       \* history: the files the invocation stored in the cache
  cacheBy,      \* history: cache key -> the invocation that stored the entry
  wrote,        \* history: the jobs whose output the invocation wrote
  loadFailed,   \* history: the invocations whose loadFiles rejected
  quiet,        \* history: nothing else was in flight when the invocation began
  startVer,     \* history: dirVer when the invocation began
  outAtStart,   \* history: out when the invocation began
  dirVer,       \* history: how often tmp/ was changed
  faults,       \* how many I/O operations were made to fail
  answer,       \* the last call of ReportsService.state and what it gave
  users,        \* the User table
  tickets,      \* the Ticket table, in order of creation
  req           \* per request to TicketsController.create: where it is

vars ==
  <<tmp, tz, out, states, parsedFiles, pc, pending, jobpc, toWrite,
    listed, stored, cacheBy, wrote, loadFailed, quiet, startVer, outAtStart,
    dirVer, faults, answer, users, tickets, req>>
\* What generateAllReports never touches.
otherVars == <<answer, users, tickets, req>>

\* No call of state() yet.
NoAnswer == [scope |-> "", threw |-> FALSE, value |-> ""]

StatusValues == {"idle", "starting", "finished"}
PcValues == {"idle", "readdir", "reading", "fanout", "returned", "thrown"}
JobPcValues == {"none", "writing", "finished", "failed"}

Init ==
  /\ tmp \in InitDirs
  /\ tz \in Zones
  /\ out = [j \in Jobs |-> NoFile]
  /\ states = [j \in Jobs |-> "idle"]
  /\ parsedFiles = <<>>
  /\ pc = [r \in Runs |-> "idle"]
  /\ pending = [r \in Runs |-> {}]
  /\ jobpc = [r \in Runs |-> [j \in Jobs |-> "none"]]
  /\ toWrite = [r \in Runs |-> [j \in Jobs |-> <<>>]]
  /\ listed = [r \in Runs |-> {}]
  /\ stored = [r \in Runs |-> {}]
  /\ cacheBy = <<>>
  /\ wrote = [r \in Runs |-> {}]
  /\ loadFailed = {}
  /\ quiet = [r \in Runs |-> FALSE]
  /\ startVer = [r \in Runs |-> 0]
  /\ outAtStart = [r \in Runs |-> [j \in Jobs |-> NoFile]]
  /\ dirVer = 0
  /\ faults = 0
  /\ answer = NoAnswer
  /\ users = {}
  /\ tickets = <<>>
  /\ req = <<>>

\* Nothing of the invocation is in flight.
Quiescent(r) ==
  /\ pc[r] \in {"idle", "returned", "thrown"}
  /\ pending[r] = {}
  /\ \A j \in Jobs : jobpc[r][j] # "writing"

\* this.parsedFiles[file] = lines
CacheStore(cache, file, lines) == ObjSet(cache, file, lines)

\* Variant: the fan-out does not wait for the reads still in flight.
LoadCompleteNoAwait(r, stillPending) == pc[r] \in {"readdir", "reading"}

\* await Promise.all(...) of loadFiles followed by await this.loadFiles():
\* the invocation goes on to the fan-out when its last read has been stored
\* and none has failed.
LoadComplete(r, stillPending) == pc[r] \in {"readdir", "reading"} /\ stillPending = {}

\* Promise.all([this.accounts(), this.yearly(), this.fs()]): the three jobs
\* run one after the other up to their await of writeFile, in one turn.
JobOutput(j, cache) ==
  IF j = "accounts" THEN AccountsOutput(cache)
  ELSE IF j = "yearly" THEN YearlyOutput(cache, tz)
  ELSE FsOutput(cache)
EnteredStatus(j) == "starting"
\* A job that throws before its write has failed when the turn ends, and
\* with it the invocation; its siblings are in flight all the same.
FanOut(r, cache) ==
  LET content == [j \in Jobs |-> JobOutput(j, cache)] IN
  /\ states' = [j \in Jobs |-> EnteredStatus(j)]
  /\ toWrite' = [toWrite EXCEPT ![r] = content]
  /\ jobpc' = [jobpc EXCEPT ![r] =
                 [j \in Jobs |-> IF content[j] = TypeError THEN "failed" ELSE "writing"]]
  /\ pc' = [pc EXCEPT ![r] =
              IF \E j \in Jobs : content[j] = TypeError THEN "thrown" ELSE "fanout"]

\* A call of generateAllReports up to the await of readdir in loadFiles.
Start(r) ==
  /\ pc[r] = "idle"
  /\ \A q \in Runs : q < r => pc[q] # "idle"
  /\ parsedFiles' = <<>>
  /\ cacheBy' = <<>>
  /\ pc' = [pc EXCEPT ![r] = "readdir"]
  /\ quiet' = [quiet EXCEPT ![r] = \A q \in Runs \ {r} : Quiescent(q)]
  /\ startVer' = [startVer EXCEPT ![r] = dirVer]
  /\ outAtStart' = [outAtStart EXCEPT ![r] = out]
  /\ UNCHANGED <<tmp, tz, out, states, pending, jobpc, toWrite, listed, stored,
                 wrote, dirVer, faults, loadFailed>>
  /\ UNCHANGED otherVars

\* readdir resolves: the reads of the eligible files are issued; with none,
\* Promise.all([]) resolves at once and the fan-out follows in the same turn.
ReaddirDone(r) ==
  /\ pc[r] = "readdir"
  /\ LET eligible == {f \in DOMAIN tmp : EndsWithCsv(f)} IN
       /\ listed' = [listed EXCEPT ![r] = eligible]
       /\ pending' = [pending EXCEPT ![r] = eligible]
       /\ IF LoadComplete(r, eligible)
            THEN FanOut(r, parsedFiles)
            ELSE /\ pc' = [pc EXCEPT ![r] = "reading"]
                 /\ UNCHANGED <<states, toWrite, jobpc>>
  /\ UNCHANGED <<tmp, tz, out, parsedFiles, stored, cacheBy, wrote, quiet,
                 startVer, outAtStart, dirVer, faults, loadFailed>>
  /\ UNCHANGED otherVars

\* readdir rejects: loadFiles and generateAllReports reject.
ReaddirFail(r) ==
  /\ pc[r] = "readdir"
  /\ faults < MaxFaults
  /\ faults' = faults + 1
  /\ pc' = [pc EXCEPT ![r] = "thrown"]
  /\ loadFailed' = loadFailed \cup {r}
  /\ UNCHANGED <<tmp, tz, out, states, parsedFiles, pending, jobpc, toWrite,
                 listed, stored, cacheBy, wrote, quiet, startVer, outAtStart, dirVer>>
  /\ UNCHANGED otherVars

\* One readFile resolves: its rows are parsed and stored in whatever object
\* this.parsedFiles is now.  The read is not cancelled by an earlier failure
\* of a sibling read, it only has no continuation then.
ReadDone(r, f) ==
  /\ f \in pending[r]
  /\ f \in DOMAIN tmp
  /\ LET cache == CacheStore(parsedFiles, f, ParseContent(tmp[f]))
         rest == pending[r] \ {f}
     IN  /\ parsedFiles' = cache
         /\ cacheBy' = [k \in DOMAIN cacheBy \cup {f} |-> IF k = f THEN r ELSE cacheBy[k]]
         /\ stored' = [stored EXCEPT ![r] = @ \cup {f}]
         /\ pending' = [pending EXCEPT ![r] = rest]
         /\ IF LoadComplete(r, rest)
              THEN FanOut(r, cache)
              ELSE UNCHANGED <<states, toWrite, jobpc, pc>>
  /\ UNCHANGED <<tmp, tz, out, listed, wrote, quiet, startVer, outAtStart, dirVer, faults, loadFailed>>
  /\ UNCHANGED otherVars

\* Variant: a rejected read is swallowed and the load goes on.
AfterReadFailureSwallowed(r) == pc[r]

\* Promise.all of the reads rejects at the first rejection, and so do
\* loadFiles and generateAllReports.
AfterReadFailure(r) == IF pc[r] = "reading" THEN "thrown" ELSE pc[r]

\* One readFile rejects (the file is gone, or any other I/O error); the
\* sibling reads stay in flight.
ReadFail(r, f) ==
  /\ f \in pending[r]
  /\ f \notin DOMAIN tmp \/ faults < MaxFaults
  /\ faults' = IF f \in DOMAIN tmp THEN faults + 1 ELSE faults
  /\ pending' = [pending EXCEPT ![r] = @ \ {f}]
  /\ pc' = [pc EXCEPT ![r] = AfterReadFailure(r)]
  /\ loadFailed' = loadFailed \cup {r}
  /\ UNCHANGED <<tmp, tz, out, states, parsedFiles, jobpc, toWrite, listed,
                 stored, cacheBy, wrote, quiet, startVer, outAtStart, dirVer>>
  /\ UNCHANGED otherVars

\* Variant: the job resets its status when it is done.
ExitStatusReset(j) == "idle"

\* Promise.all of the three jobs: resolves when the last job has resolved.
AllJobsDone(jp) == \A j \in Jobs : jp[j] = "finished"
\* The job's status after its writeFile resolved: `finished in ${seconds}`,
\* whatever the elapsed time.
ExitStatus(j) == "finished"

\* Variant: the tracker is replaced as a whole when a job is done.
SetStatusOfAll(tracker, j, status) == [k \in Jobs |-> status]

\* this.states.<job> = status
SetStatus(tracker, j, status) == [tracker EXCEPT ![j] = status]

\* writeFile of a job resolves: the job sets its status and returns.
WriteDone(r, j) ==
  /\ jobpc[r][j] = "writing"
  /\ out' = [out EXCEPT ![j] = toWrite[r][j]]
  /\ states' = SetStatus(states, j, ExitStatus(j))
  /\ jobpc' = [jobpc EXCEPT ![r][j] = "finished"]
  /\ wrote' = [wrote EXCEPT ![r] = @ \cup {j}]
  /\ pc' = [pc EXCEPT ![r] =
              IF @ = "fanout" /\ AllJobsDone(jobpc'[r]) THEN "returned" ELSE @]
  /\ UNCHANGED <<tmp, tz, parsedFiles, pending, toWrite, listed, stored, cacheBy,
                 quiet, startVer, outAtStart, dirVer, faults, loadFailed>>
  /\ UNCHANGED otherVars

\* Variant: the status is set in a finally block.
FailStatusFinally(j) == "finished"
\* Variant: the fan-out waits for every job to settle (Promise.allSettled).
AfterJobFailureSettled(r, j) == pc[r]

\* The status of a job whose writeFile rejected: the assignment after the
\* await is skipped.
FailStatus(j) == states[j]
\* Promise.all of the three jobs: rejects at the first rejection.
AfterJobFailure(r, j) == IF pc[r] = "fanout" THEN "thrown" ELSE pc[r]

\* writeFile of a job rejects and so does the job.  The file is left as it
\* was: the failures that leave a partial file are not modelled.
WriteFail(r, j) ==
  /\ jobpc[r][j] = "writing"
  /\ faults < MaxFaults
  /\ faults' = faults + 1
  /\ out' = out
  /\ states' = [states EXCEPT ![j] = FailStatus(j)]
  /\ jobpc' = [jobpc EXCEPT ![r][j] = "failed"]
  /\ pc' = [pc EXCEPT ![r] = AfterJobFailure(r, j)]
  /\ UNCHANGED <<tmp, tz, parsedFiles, pending, toWrite, listed, stored, cacheBy,
                 wrote, quiet, startVer, outAtStart, dirVer, loadFailed>>
  /\ UNCHANGED otherVars

\* The environment removes a source file or writes one, between the runs.
ChangeDir ==
  /\ dirVer < MaxDirChanges
  /\ \A r \in Runs : Quiescent(r)
  /\ dirVer' = dirVer + 1
  /\ \E f \in FileNames :
       \/ /\ f \in DOMAIN tmp
          /\ tmp' = [g \in DOMAIN tmp \ {f} |-> tmp[g]]
       \/ \E c \in ContentsOf(f) :
            /\ IF f \in DOMAIN tmp THEN tmp[f] # c ELSE TRUE
            /\ tmp' = [g \in DOMAIN tmp \cup {f} |-> IF g = f THEN c ELSE tmp[g]]
  /\ UNCHANGED <<tz, out, states, parsedFiles, pc, pending, jobpc, toWrite,
                 listed, stored, cacheBy, wrote, quiet, startVer, outAtStart, faults, loadFailed>>
  /\ UNCHANGED otherVars

Next ==
  \/ \E r \in Runs : Start(r)
  \/ \E r \in Runs : ReaddirDone(r)
  \/ \E r \in Runs : ReaddirFail(r)
  \/ \E r \in Runs, f \in FileNames : ReadDone(r, f)
  \/ \E r \in Runs, f \in FileNames : ReadFail(r, f)
  \/ \E r \in Runs, j \in Jobs : WriteDone(r, j)
  \/ \E r \in Runs, j \in Jobs : WriteFail(r, j)
  \/ ChangeDir

Spec == Init /\ [][Next]_vars

-----------------------------------------------------------------------------
(* One invocation of generateAllReports over ledgers of a few rows, split  *)
(* over two files in every way.                                            *)

D23 == <<"2", "0", "2", "3", "-06-15">>
D24 == <<"2", "0", "2", "4", "-01-01">>
\* The rows a ledger is made of: date, account, description, debit, credit.
LedgerRows ==
  { <<D23, <<"Cash">>, <<>>, <<"5">>, <<>>>>,
    <<D23, <<"Cash">>, <<>>, <<"2">>, <<"7">>>>,
    <<D24, <<"Cash">>, <<>>, <<"5">>, <<>>>>,
    <<D24, <<"Sales Revenue">>, <<>>, <<>>, <<"5">>>>,
    <<D23, <<"Cash">>, <<>>, <<"0", ".", "0", "0", "4">>, <<>>>>,
    <<D23, <<"Inventory">>, <<>>, <<"0", ".", "0", "0", "4">>, <<>>>>,
    <<D23, <<"toString">>, <<>>, <<"5">>, <<>>>>,
    <<D23, <<"Misc">>, <<>>, <<"5">>, <<>>>> }
RowSeqs == UNION {[1..n -> LedgerRows] : n \in 0..MaxRows}

\* The text of a file that holds the rows.
FileText(rows) == Join([i \in 1..Len(rows) |-> Join(rows[i], ",")], "\n")
\* The names of the two files; a job passes over a file named as its output.
NamePairs == {<<ACsv, BCsv>>, <<YearlyCsv, FsCsv>>}
\* The directory with the first k rows in one file and the others in the
\* other; a file that would hold no row is not there.
LedgerDir(rows, k, names) ==
  [f \in (IF k > 0 THEN {names[1]} ELSE {})
           \cup (IF k < Len(rows) THEN {names[2]} ELSE {})
     |-> IF f = names[1]
           THEN FileText(SubSeq(rows, 1, k))
           ELSE FileText(SubSeq(rows, k + 1, Len(rows)))]
LedgerDirs ==
  UNION {{LedgerDir(rows, k, names) : k \in 0..Len(rows), names \in NamePairs}
           : rows \in RowSeqs}

InitJobs ==
  /\ tmp \in LedgerDirs
  /\ tz \in Zones
  /\ out = [j \in Jobs |-> NoFile]
  /\ states = [j \in Jobs |-> "idle"]
  /\ parsedFiles = <<>>
  /\ pc = [r \in Runs |-> "idle"]
  /\ pending = [r \in Runs |-> {}]
  /\ jobpc = [r \in Runs |-> [j \in Jobs |-> "none"]]
  /\ toWrite = [r \in Runs |-> [j \in Jobs |-> <<>>]]
  /\ listed = [r \in Runs |-> {}]
  /\ stored = [r \in Runs |-> {}]
  /\ cacheBy = <<>>
  /\ wrote = [r \in Runs |-> {}]
  /\ loadFailed = {}
  /\ quiet = [r \in Runs |-> FALSE]
  /\ startVer = [r \in Runs |-> 0]
  /\ outAtStart = [r \in Runs |-> [j \in Jobs |-> NoFile]]
  /\ dirVer = 0
  /\ faults = 0
  /\ answer = NoAnswer
  /\ users = {}
  /\ tickets = <<>>
  /\ req = <<>>

NextJobs ==
  \/ Start(1)
  \/ ReaddirDone(1)
  \/ \E f \in DOMAIN tmp : ReadDone(1, f)
  \/ \E j \in Jobs : WriteDone(1, j)

SpecJobs == InitJobs /\ [][NextJobs]_vars

-----------------------------------------------------------------------------
(* The status query, state(scope), beside one invocation of                *)
(* generateAllReports.                                                     *)

\* The names a caller may ask for: the three jobs, a name that is no job,
\* and a name that every object inherits.
Scopes == Jobs \cup {"reports", "toString"}

\* this.states[scope]: the own property, else the inherited one (a
\* function), else undefined.  Nothing is thrown.
StateOf(tracker, scope) ==
  IF scope \in DOMAIN tracker THEN [threw |-> FALSE, value |-> tracker[scope]]
  ELSE IF scope = "toString" THEN [threw |-> FALSE, value |-> "function"]
  ELSE [threw |-> FALSE, value |-> "undefined"]

\* A call of state(scope): synchronous, one turn.
StateQuery(scope) ==
  /\ answer' = [scope |-> scope,
                threw |-> StateOf(states, scope).threw,
                value |-> StateOf(states, scope).value]
  /\ UNCHANGED <<tmp, tz, out, states, parsedFiles, pc, pending, jobpc, toWrite,
                 listed, stored, cacheBy, wrote, loadFailed, quiet, startVer,
                 outAtStart, dirVer, faults, users, tickets, req>>

NextStatus ==
  \/ \E scope \in Scopes : StateQuery(scope)
  \/ Start(1)
  \/ ReaddirDone(1)
  \/ \E f \in FileNames : ReadDone(1, f)
  \/ \E j \in Jobs : WriteDone(1, j)

SpecStatus == Init /\ [][NextStatus]_vars

-----------------------------------------------------------------------------
(* TicketsController.create (src/src/tickets/tickets.controller.ts).       *)
(* Requests run concurrently; each await of a database call is a           *)
(* suspension point, and the call takes effect, or is answered from the    *)
(* tables as they are, in the step that resumes the request.               *)

Requests == 1..MaxRequests
Companies == {1, 2}
TicketTypes == {"managementReport", "registrationAddressChange", "strikeOff"}
\* What a request may carry as type: a ticket type or anything else.
RequestTypes == TicketTypes \cup {"other"}

\* The users that the User table may hold; ids follow createdAt.
UserPool ==
  { [id |-> 1, companyId |-> 1, role |-> "accountant"],
    [id |-> 2, companyId |-> 1, role |-> "corporateSecretary"],
    [id |-> 3, companyId |-> 1, role |-> "corporateSecretary"],
    [id |-> 4, companyId |-> 1, role |-> "director"],
    [id |-> 5, companyId |-> 1, role |-> "director"],
    [id |-> 6, companyId |-> 2, role |-> "director"] }

ReqPcValues ==
  {"idle", "findAccountant", "findOpenTicket", "findSecretaries",
   "findDirectors", "creating", "resolving", "returned", "thrown"}
\* A request that was not made yet.
NoRequest ==
  [pc |-> "idle", type |-> "", companyId |-> 0, category |-> "",
   assigneeId |-> 0, ticketId |-> 0, status |-> "", error |-> "", touched |-> {}]

reportVars ==
  <<tmp, tz, out, states, parsedFiles, pc, pending, jobpc, toWrite, listed,
    stored, cacheBy, wrote, loadFailed, quiet, startVer, outAtStart, dirVer,
    faults, answer>>

InitTickets ==
  /\ users \in SUBSET UserPool
  /\ tickets = <<>>
  /\ req = [q \in Requests |-> NoRequest]
  /\ tmp = [f \in {NotesTxt} |-> TextNote]
  /\ tz = "utc"
  /\ out = [j \in Jobs |-> NoFile]
  /\ states = [j \in Jobs |-> "idle"]
  /\ parsedFiles = <<>>
  /\ pc = [r \in Runs |-> "idle"]
  /\ pending = [r \in Runs |-> {}]
  /\ jobpc = [r \in Runs |-> [j \in Jobs |-> "none"]]
  /\ toWrite = [r \in Runs |-> [j \in Jobs |-> <<>>]]
  /\ listed = [r \in Runs |-> {}]
  /\ stored = [r \in Runs |-> {}]
  /\ cacheBy = <<>>
  /\ wrote = [r \in Runs |-> {}]
  /\ loadFailed = {}
  /\ quiet = [r \in Runs |-> FALSE]
  /\ startVer = [r \in Runs |-> 0]
  /\ outAtStart = [r \in Runs |-> [j \in Jobs |-> NoFile]]
  /\ dirVer = 0
  /\ faults = 0
  /\ answer = NoAnswer

\* User.findAll({ where: { companyId, role } })
UsersWith(companyId, role) ==
  {u \in users : u.companyId = companyId /\ u.role = role}
\* User.findOne({ where: ..., order: [['createdAt', 'DESC']] }): the id of
\* the latest, 0 for null.
LatestUser(found) ==
  IF found = {} THEN 0
  ELSE (CHOOSE u \in found : \A w \in found : w.id <= u.id).id
\* Ticket.findOne({ where: { companyId, type, status: open } }) is not null
OpenTicketOf(companyId, type) ==
  \E i \in 1..Len(tickets) :
    /\ tickets[i].companyId = companyId
    /\ tickets[i].type = type
    /\ tickets[i].status = "open"

\* throw new ConflictException(...), or a TypeError of the runtime
Throw(q, error) == req' = [req EXCEPT ![q].pc = "thrown", ![q].error = error]
\* The request goes on to await Ticket.create with the assignee found.
GoCreate(q, category, assigneeId) ==
  req' = [req EXCEPT ![q].pc = "creating", ![q].category = category,
                     ![q].assigneeId = assigneeId]

\* POST: the switch up to the first await; an unsupported type throws.
Create(q, type, companyId) ==
  /\ req[q].pc = "idle"
  /\ \A p \in Requests : p < q => req[p].pc # "idle"
  /\ LET first == IF type = "managementReport" THEN "findAccountant"
                  ELSE IF type = "registrationAddressChange" THEN "findOpenTicket"
                  ELSE IF type = "strikeOff" THEN "findDirectors"
                  ELSE "thrown"
     IN  req' = [req EXCEPT ![q].pc = first, ![q].type = type,
                            ![q].companyId = companyId,
                            ![q].error = IF first = "thrown" THEN "Conflict" ELSE ""]
  /\ UNCHANGED <<users, tickets>>
  /\ UNCHANGED reportVars

\* managementReport: User.findOne resolves; null is a conflict.
FindAccountantDone(q) ==
  /\ req[q].pc = "findAccountant"
  /\ LET accountant == LatestUser(UsersWith(req[q].companyId, "accountant")) IN
       IF accountant = 0
         THEN Throw(q, "Conflict")
         ELSE GoCreate(q, "accounting", accountant)
  /\ UNCHANGED <<users, tickets>>
  /\ UNCHANGED reportVars

\* registrationAddressChange: Ticket.findOne resolves; an open ticket of
\* that type and company is a conflict.
FindOpenTicketDone(q) ==
  /\ req[q].pc = "findOpenTicket"
  /\ IF OpenTicketOf(req[q].companyId, "registrationAddressChange")
       THEN Throw(q, "Conflict")
       ELSE req' = [req EXCEPT ![q].pc = "findSecretaries"]
  /\ UNCHANGED <<users, tickets>>
  /\ UNCHANGED reportVars

\* The id of the only user of a set of one.
OnlyUser(found) == (CHOOSE u \in found : TRUE).id

\* registrationAddressChange: User.findAll of the corporate secretaries
\* resolves; several are a conflict, one is the assignee, with none the
\* directors are looked up.
FindSecretariesDone(q) ==
  /\ req[q].pc = "findSecretaries"
  /\ LET found == UsersWith(req[q].companyId, "corporateSecretary") IN
       IF Cardinality(found) > 1 THEN Throw(q, "Conflict")
       ELSE IF found = {} THEN req' = [req EXCEPT ![q].pc = "findDirectors"]
       ELSE GoCreate(q, "corporate", OnlyUser(found))
  /\ UNCHANGED <<users, tickets>>
  /\ UNCHANGED reportVars

\* registrationAddressChange: User.findAll of the directors resolves;
\* several or none are a conflict.
FindAssigneeDirectorsDone(q) ==
  /\ req[q].pc = "findDirectors"
  /\ req[q].type = "registrationAddressChange"
  /\ LET found == UsersWith(req[q].companyId, "director") IN
       IF Cardinality(found) # 1
         THEN Throw(q, "Conflict")
         ELSE GoCreate(q, "corporate", OnlyUser(found))
  /\ UNCHANGED <<users, tickets>>
  /\ UNCHANGED reportVars

\* Variant: the first director is the assignee, however many there are.
StrikeOffAssigneeFirst(directors) ==
  IF directors = {} THEN [error |-> "TypeError", id |-> 0]
  ELSE [error |-> "", id |-> OnlyUser(directors)]

\* strikeOff: several directors are a conflict; assignee = directors[0],
\* and with no director `assignee.id`, in the arguments of Ticket.create,
\* throws a TypeError before the call.
StrikeOffAssignee(directors) ==
  IF Cardinality(directors) > 1 THEN [error |-> "Conflict", id |-> 0]
  ELSE IF directors = {} THEN [error |-> "TypeError", id |-> 0]
  ELSE [error |-> "", id |-> OnlyUser(directors)]

\* strikeOff: User.findAll of the directors resolves.
FindDirectorsDone(q) ==
  /\ req[q].pc = "findDirectors"
  /\ req[q].type = "strikeOff"
  /\ LET found == StrikeOffAssignee(UsersWith(req[q].companyId, "director")) IN
       IF found.error # ""
         THEN Throw(q, found.error)
         ELSE GoCreate(q, "management", found.id)
  /\ UNCHANGED <<users, tickets>>
  /\ UNCHANGED reportVars

\* Ticket.create resolves: the ticket is stored, open.  The request holds
\* the instance as it was created.  For a strikeOff Ticket.update is
\* awaited next, every other type returns the ticketDto.
TicketCreateDone(q) ==
  /\ req[q].pc = "creating"
  /\ LET id == Len(tickets) + 1 IN
       /\ tickets' = Append(tickets,
                             [id |-> id, type |-> req[q].type,
                              companyId |-> req[q].companyId,
                              assigneeId |-> req[q].assigneeId,
                              category |-> req[q].category, status |-> "open"])
       /\ req' = [req EXCEPT ![q].ticketId = id, ![q].status = "open",
                             ![q].touched = {id},
                             ![q].pc = IF req[q].type = "strikeOff"
                                         THEN "resolving" ELSE "returned"]
  /\ UNCHANGED users
  /\ UNCHANGED reportVars

\* Ticket.update({ status: resolved }, { where: { companyId, status: open } })
ResolveOpen(table, companyId) ==
  [i \in 1..Len(table) |->
     IF table[i].companyId = companyId /\ table[i].status = "open"
       THEN [table[i] EXCEPT !.status = "resolved"]
       ELSE table[i]]

\* strikeOff: Ticket.update resolves and the ticketDto is returned, made of
\* the instance that Ticket.create gave.
TicketUpdateDone(q) ==
  /\ req[q].pc = "resolving"
  /\ tickets' = ResolveOpen(tickets, req[q].companyId)
  /\ req' = [req EXCEPT ![q].pc = "returned",
                        ![q].touched = @ \cup {i \in 1..Len(tickets) : tickets'[i] # tickets[i]}]
  /\ UNCHANGED users
  /\ UNCHANGED reportVars

NextTickets ==
  \/ \E q \in Requests, type \in RequestTypes, companyId \in Companies :
       Create(q, type, companyId)
  \/ \E q \in Requests : FindAccountantDone(q)
  \/ \E q \in Requests : FindOpenTicketDone(q)
  \/ \E q \in Requests : FindSecretariesDone(q)
  \/ \E q \in Requests : FindAssigneeDirectorsDone(q)
  \/ \E q \in Requests : FindDirectorsDone(q)
  \/ \E q \in Requests : TicketCreateDone(q)
  \/ \E q \in Requests : TicketUpdateDone(q)

SpecTickets == InitTickets /\ [][NextTickets]_vars

-----------------------------------------------------------------------------
(* Properties.                                                             *)

TypeOK ==
  /\ DOMAIN tmp \subseteq FileNames
  /\ states \in [Jobs -> StatusValues]
  /\ pc \in [Runs -> PcValues]
  /\ jobpc \in [Runs -> [Jobs -> JobPcValues]]
  /\ \A r \in Runs : pending[r] \subseteq listed[r] /\ stored[r] \subseteq listed[r]

\* The invocation has entered job j (set its status and read the cache).
Entered(r, j) == jobpc[r][j] # "none"
\* The invocation's loadFiles has resolved: every eligible file of its
\* listing was read and stored by it.
Loaded(r) ==
  /\ pc[r] \in {"fanout", "returned", "thrown"}
  /\ r \notin loadFailed
  /\ pending[r] = {}
  /\ stored[r] = listed[r]

C2_OneGeneration ==
  \A f \in DOMAIN cacheBy : \A g \in DOMAIN cacheBy : cacheBy[f] = cacheBy[g]

\* C3: when loadFiles of an invocation resolves, the keys of the cache are
\* exactly the eligible files of its listing.
C3_CacheIsListing ==
  [][\A r \in Runs :
       (pc[r] \in {"readdir", "reading"} /\ pc'[r] = "fanout")
         => ObjKeys(parsedFiles') = listed'[r]]_vars

\* No other invocation was in flight when r began and none began after it.
Alone(r) ==
  /\ quiet[r]
  /\ \A q \in Runs : q > r => pc[q] = "idle"

\* C4: two invocations in sequence, nothing else in flight and the source
\* directory unchanged from the start of the first to the return of the
\* second, hand the same three contents to writeFile.
C4_Idempotent ==
  \A r \in Runs :
    (/\ r + 1 \in Runs
     /\ pc[r] = "returned" /\ pc[r + 1] = "returned"
     /\ quiet[r] /\ quiet[r + 1]
     /\ startVer[r] = dirVer)
      => toWrite[r] = toWrite[r + 1]

\* C5 as claimed: generateAllReports neither returns nor throws while one of
\* its jobs is in flight.
C5_SettlesAfterAllJobs ==
  \A r \in Runs :
    pc[r] \in {"returned", "thrown"} => \A j \in Jobs : jobpc[r][j] # "writing"
\* C5 as amended: a failing job leaves its siblings as they are (a sibling in
\* flight stays in flight), generateAllReports throws in that very step, and
\* it returns normally only when no job is in flight.
C5_FailFastNoCancel ==
  /\ [](\A r \in Runs :
          pc[r] = "returned" => \A j \in Jobs : jobpc[r][j] = "finished")
  /\ [][\A r \in Runs : \A j \in Jobs :
          (jobpc[r][j] = "writing" /\ jobpc'[r][j] = "failed")
            => /\ pc'[r] = "thrown"
               /\ \A k \in Jobs \ {j} : jobpc'[r][k] = jobpc[r][k]]_vars
C5_Witness ==
  \E r \in Runs : \E j \in Jobs : \E k \in Jobs :
    /\ pc[r] = "thrown"
    /\ jobpc[r][j] = "failed"
    /\ jobpc[r][k] = "writing"

\* C6: after an invocation has failed, with nothing else in flight
\* meanwhile, every output file has the content it had when it began.
C6_FailedRunWritesNothing ==
  \A r \in Runs :
    (pc[r] = "thrown" /\ Alone(r)) => out = outAtStart[r]

\* C7: an invocation whose loadFiles rejected has thrown, enters no job and
\* writes no output file, and the step in which the load fails changes no
\* status and no output file.
C7_LoadFailureAborts ==
  /\ [](\A r \in loadFailed :
          /\ pc[r] = "thrown"
          /\ \A j \in Jobs : ~Entered(r, j)
          /\ wrote[r] = {})
  /\ [][loadFailed' # loadFailed => (states' = states /\ out' = out)]_vars
C7_Witness ==
  \E r \in loadFailed :
    /\ ACsv \in stored[r]
    /\ BCsv \in listed[r] \ stored[r]
    /\ pending[r] = {}

\* C8: the step in which a job fails leaves the job's status as it was, the
\* failed invocation of the job never finishes, and a status is never
\* anything but idle, starting or finished.
C8_FailedJobKeepsStatus ==
  /\ [](\A j \in Jobs : states[j] \in StatusValues)
  /\ [][\A r \in Runs : \A j \in Jobs :
          /\ (jobpc[r][j] = "writing" /\ jobpc'[r][j] = "failed")
               => states'[j] = states[j]
          /\ jobpc[r][j] = "failed" => jobpc'[r][j] = "failed"]_vars
C8_Witness ==
  \E r \in Runs : \E j \in Jobs :
    /\ jobpc[r][j] = "failed"
    /\ states[j] = "starting"
    /\ \A q \in Runs \ {r} : pc[q] = "idle"

\* C9: a status is idle, starting or finished; it is idle exactly as long as
\* no invocation has entered the job; it changes only to 'starting', in a
\* step that enters the job, or to 'finished', in a step in which a write of
\* the job resolves.
C9_Lifecycle ==
  /\ [](/\ \A j \in Jobs : states[j] \in StatusValues
        /\ \A j \in Jobs : states[j] = "idle" <=> \A r \in Runs : ~Entered(r, j))
  /\ [][\A j \in Jobs :
          /\ (\E r \in Runs : ~Entered(r, j) /\ Entered(r, j)') => states'[j] = "starting"
          /\ (\E r \in Runs : jobpc[r][j] = "writing" /\ jobpc'[r][j] = "finished")
               => states'[j] = "finished"
          /\ states'[j] # states[j] =>
               \/ /\ states'[j] = "starting"
                  /\ \E r \in Runs : ~Entered(r, j) /\ Entered(r, j)'
               \/ /\ states'[j] = "finished"
                  /\ \E r \in Runs : jobpc[r][j] = "writing" /\ jobpc'[r][j] = "finished"]_vars
C9_Witness ==
  /\ states["accounts"] = "finished"
  /\ states["yearly"] = "starting"
  /\ \E r \in Runs : jobpc[r]["accounts"] = "finished" /\ jobpc[r]["yearly"] = "writing"

\* C10: in the step in which generateAllReports returns normally, the
\* invocation has written all three outputs and all three statuses are
\* 'finished'.
C10_ReturnMeansAllFinished ==
  [][\A r \in Runs :
       (pc[r] # "returned" /\ pc'[r] = "returned")
         => /\ wrote'[r] = Jobs
            /\ \A j \in Jobs : states'[j] = "finished"]_vars

\* Steps of job j: an invocation enters it, or its write resolves or rejects.
JobEnters(j) == \E r \in Runs : ~Entered(r, j) /\ Entered(r, j)'
JobExits(j) == \E r \in Runs : jobpc[r][j] = "writing" /\ jobpc'[r][j] = "finished"
\* Steps of loadFiles: the cache is reset at its start, a read is stored.
LoadResets == \E r \in Runs : pc[r] = "idle" /\ pc'[r] = "readdir"
LoadStores == \E r \in Runs : stored'[r] # stored[r]

\* C11: the status of a job changes only in a step of that job (its entry or
\* its exit) and its output file only when its own write resolves; the cache
\* changes only in a step of loadFiles (the reset, or the store of one read)
\* and is, after a step that enters the jobs, what loadFiles made it; a step
\* of loadFiles in which no job is entered changes no status.
C11_Frame ==
  [][/\ \A j \in Jobs :
          /\ states'[j] # states[j] => (JobEnters(j) \/ JobExits(j))
          /\ out'[j] # out[j] => JobExits(j)
     /\ parsedFiles' # parsedFiles => (LoadResets \/ LoadStores)
     /\ (\E j \in Jobs : JobEnters(j)) =>
          \/ parsedFiles' = parsedFiles
          \/ \E f \in DOMAIN tmp :
               parsedFiles' = CacheStore(parsedFiles, f, ParseContent(tmp[f]))
     /\ ((LoadResets \/ LoadStores) /\ ~(\E j \in Jobs : JobEnters(j)))
          => states' = states]_vars
C11_Witness ==
  /\ states = [j \in Jobs |-> IF j = "yearly" THEN "finished" ELSE "starting"]
  /\ out["yearly"] # NoFile
  /\ out["accounts"] = NoFile /\ out["fs"] = NoFile
  /\ Len(parsedFiles) = 2

\* C12: a call of state() with a name that is no job reports an error to the
\* caller; a call with the name of a job gives that job's status; no call
\* changes the tracker or the cache.
C12_StatusQuery ==
  [][answer' # answer =>
       /\ states' = states
       /\ parsedFiles' = parsedFiles
       /\ answer'.scope \in Jobs =>
            (~answer'.threw /\ answer'.value = states[answer'.scope])
       /\ answer'.scope \notin Jobs => answer'.threw]_vars

\* The rows of the cache, and of the cache without the file named skip.
CachedRows == RowsOf(ObjEntries(parsedFiles), <<>>)
CachedRowsBut(skip) == RowsOf(ObjEntries(parsedFiles), skip)
AccountsOf(rows) == {rows[i][2] : i \in 1..Len(rows)}
\* The amounts of the rows are written as integers.
IsInteger(field) == \A i \in 1..Len(field) : field[i] \in DigitSet
IntegerAmounts(rows) ==
  \A i \in 1..Len(rows) : IsInteger(rows[i][4]) /\ IsInteger(rows[i][5])
\* Debit minus credit over the rows of the account, in thousandths.
Thousandth(field) ==
  IF field = <<>> THEN 0
  ELSE IF IsInteger(field) THEN 1000 * DigitsValue(field, 0)
  ELSE Thousandths(SubSeq(field, 3, Len(field)))
RECURSIVE SumOf(_, _)
SumOf(rows, account) ==
  IF rows = <<>> THEN 0
  ELSE (IF Head(rows)[2] = account
          THEN Thousandth(Head(rows)[4]) - Thousandth(Head(rows)[5])
          ELSE 0) + SumOf(Tail(rows), account)
\* A whole number with two decimals, as the reports print it.
Money(i) == IntToText(i) \o <<".", "0", "0">>

\* C13: with amounts that are integers, the content that the accounts job
\* hands to writeFile has, after its header, one line for every account of
\* the cached rows and no other, and the line carries the sum of debit minus
\* credit over all cached rows of the account, whatever files hold them.
C13_BalanceIsSum ==
  (Entered(1, "accounts") /\ IntegerAmounts(CachedRows)) =>
    LET table == ParseContent(toWrite[1]["accounts"]) IN
    /\ Len(table) = 1 + Cardinality(AccountsOf(CachedRows))
    /\ \A a \in AccountsOf(CachedRows) :
         \E i \in 2..Len(table) :
           table[i] = <<a, Money(SumOf(CachedRows, a) \div 1000)>>

\* The year written in the date of a row.
YearOf(row) == DigitsValue(SubSeq(row[1], 1, 4), 0)
\* Debit minus credit over the Cash rows of the year, in thousandths.
RECURSIVE CashOfYear(_, _)
CashOfYear(rows, year) ==
  IF rows = <<>> THEN 0
  ELSE (IF Head(rows)[2] = <<"Cash">> /\ YearOf(Head(rows)) = year
          THEN Thousandth(Head(rows)[4]) - Thousandth(Head(rows)[5])
          ELSE 0) + CashOfYear(Tail(rows), year)
CashYears(rows) ==
  {YearOf(rows[i]) : i \in {k \in 1..Len(rows) : rows[k][2] = <<"Cash">>}}

\* C14: the content that the yearly job hands to writeFile has, after its
\* header, one line for every year written in the date of a Cash row of the
\* cached files other than yearly.csv and no other line, each with the sum of
\* debit minus credit of the Cash rows of that year, in ascending order of
\* the year.
C14_OneRowPerYear ==
  Entered(1, "yearly") =>
    LET rows == CachedRowsBut(YearlyCsv)
        table == ParseContent(toWrite[1]["yearly"])
    IN  /\ Len(table) = 1 + Cardinality(CashYears(rows))
        /\ \A i \in 2..Len(table) :
             \E y \in CashYears(rows) :
               table[i] = <<NatToText(y), ToFixed2(Num(CashOfYear(rows, y)))>>
        /\ \A i \in 2..Len(table) : \A k \in 2..Len(table) :
             i < k => DigitsValue(table[i][1], 0) < DigitsValue(table[k][1], 0)

\* The lines of a statement that name an account of the taxonomy or of the
\* rows, in their order.
TaxonomyNames == {<<Taxonomy[i]>> : i \in 1..Len(Taxonomy)}
IsAccountLine(line) ==
  Len(line) = 2 /\ line[1] \in TaxonomyNames \cup AccountsOf(CachedRows)
\* The lines of a text, each split at its commas.
TextLines(text) ==
  LET breaks == {0, Len(text) + 1} \cup {i \in 1..Len(text) : text[i] = "\n"}
      nth(k) == CHOOSE p \in breaks : Cardinality({q \in breaks : q < p}) = k - 1
  IN  [k \in 1..(Cardinality(breaks) - 1) |->
         Split(SubSeq(text, nth(k) + 1, nth(k + 1) - 1), ",")]
RECURSIVE SumShown(_, _)
SumShown(lines, names) ==
  IF lines = <<>> THEN 0
  ELSE (IF Head(lines)[1] \in names THEN ParseFloat(Head(lines)[2]).v ELSE 0)
         + SumShown(Tail(lines), names)

\* C15: the content that the fs job hands to writeFile names the 20 accounts
\* of the taxonomy, in the order of the taxonomy, and no other account; each
\* carries the sum of debit minus credit of its rows in the cached files
\* other than fs.csv (0.00 without such a row); and the amount shown as
\* Total Assets is the sum of the amounts shown for the five assets.
C15_Statement ==
  Entered(1, "fs") =>
    LET rows == CachedRowsBut(FsCsv)
        table == TextLines(toWrite[1]["fs"])
        lines == SelectSeq(table, IsAccountLine)
        total == SelectSeq(table, LAMBDA line : line[1] = <<"Total Assets">>)
    IN  /\ Len(lines) = Len(Taxonomy)
        /\ \A i \in 1..Len(lines) :
             lines[i] = <<<<Taxonomy[i]>>, ToFixed2(Num(SumOf(rows, <<Taxonomy[i]>>)))>>
        /\ Len(total) = 1
        /\ ParseFloat(total[1][2]).v
             = SumShown(lines, {<<Assets[i]>> : i \in 1..Len(Assets)})

\* The number of lines of a text that are not blank.
NonBlankLines(text) ==
  LET lines == Split(text, "\n")
  IN  Cardinality({i \in 1..Len(lines) : Trim(lines[i]) # <<>>})

\* C16: when a read is stored, the cache entry of the file has one row for
\* every line of the file's text that is not blank, and none for a text that
\* is empty or ends in blank lines.
C16_NoSpuriousRecord ==
  [][\A r \in Runs : \A f \in FileNames :
       (f \notin stored[r] /\ f \in stored'[r])
         => Len(ObjGet(parsedFiles', f)) = NonBlankLines(tmp[f])]_vars

\* C17: a status reads 'finished' only if the job's output file has been
\* written and no invocation of the job is in flight.
C17_FinishedMeansDone ==
  \A j \in Jobs :
    states[j] = "finished" =>
      /\ out[j] # NoFile
      /\ \A r \in Runs : jobpc[r][j] # "writing"

\* C18: a company has at most one open ticket of type
\* registrationAddressChange.
C18_OneOpenAddressChange ==
  \A c \in Companies :
    Cardinality({i \in 1..Len(tickets) :
                   /\ tickets[i].companyId = c
                   /\ tickets[i].type = "registrationAddressChange"
                   /\ tickets[i].status = "open"}) <= 1

\* C19: in the step in which create returns, the status of the ticketDto is
\* the status that the created ticket has in the table.
C19_DtoStatusIsStored ==
  [][\A q \in Requests :
       (req[q].pc # "returned" /\ req'[q].pc = "returned")
         => req'[q].status = tickets'[req'[q].ticketId].status]_vars

\* The users of the ticket's company that hold the role.
Holders(ticket, role) ==
  {u.id : u \in {w \in users : w.companyId = ticket.companyId /\ w.role = role}}
\* The assignee is the user that the ticket's type requires.
RightAssignee(ticket) ==
  IF ticket.type = "managementReport"
    THEN ticket.assigneeId \in Holders(ticket, "accountant")
  ELSE IF ticket.type = "registrationAddressChange"
    THEN IF Holders(ticket, "corporateSecretary") # {}
           THEN Holders(ticket, "corporateSecretary") = {ticket.assigneeId}
           ELSE Holders(ticket, "director") = {ticket.assigneeId}
  ELSE /\ ticket.type = "strikeOff"
       /\ Holders(ticket, "director") = {ticket.assigneeId}

\* C20: every ticket of the table is assigned to the user of its company
\* that its type requires; a request that has failed has created and
\* modified no ticket, and the step in which it fails leaves the table as
\* it was.
C20_AssigneeAndFailure ==
  /\ [](/\ \A i \in 1..Len(tickets) : RightAssignee(tickets[i])
        /\ \A q \in Requests :
             req[q].pc = "thrown" => (req[q].ticketId = 0 /\ req[q].touched = {}))
  /\ [][\A q \in Requests :
          (req[q].pc # "thrown" /\ req'[q].pc = "thrown") => tickets' = tickets]_vars
C20_Witness ==
  /\ \E q \in Requests :
       /\ req[q].pc = "thrown"
       /\ req[q].type = "strikeOff"
       /\ req[q].error = "TypeError"
  /\ \E i \in 1..Len(tickets) :
       /\ tickets[i].type = "registrationAddressChange"
       /\ tickets[i].assigneeId \in Holders(tickets[i], "director")

=============================================================================
